---- MODULE Spec2Model ----
(***************************************************************************)
(* Model of tariff_calculator.py: a Streamlit script that fetches          *)
(* end-of-day quotes from the Marketstack API for a fixed list of indices  *)
(* and ETFs, compares the close on or before START_DATE_STR with the       *)
(* latest close, and renders metrics and two tables.                       *)
(*                                                                         *)
(* Strings the code slices, formats or compares (dates, formatted numbers) *)
(* are sequences of one-character strings; fixed labels are TLA+ strings.  *)
(* Python's None is the empty sequence <<>>, a present value v is <<v>>.   *)
(***************************************************************************)
EXTENDS Integers, Sequences, FiniteSets, TLC

\* ------------------------------------------------------------ bounds
\* How many entries of `indices` and of `etfs` a run iterates over.
MaxIndices == 2
MaxEtfs == 1
\* How many times the clock advances (by half a TTL each time).
MaxTicks == 2

\* -------------------------------------------------- program constants
\* @st.cache_data(ttl=3600)
TTL == 3600
\* Mutant of MaxAttempts: one iteration too many.
MaxAttemptsOneMore == 5 + 1

\* for i in range(5)
MaxAttempts == 5

\* START_DATE_STR = "2024-03-12"
START_DATE_STR == <<"2","0","2","4","-","0","3","-","1","2">>

\* indices = {...}: name -> symbol, in insertion order
indices ==
  << [name |-> "AEX",        symbol |-> "AEX.INDX"],
     [name |-> "S&P 500",    symbol |-> "GSPC.INDX"],
     [name |-> "FTSE 100",   symbol |-> "FTSE.INDX"],
     [name |-> "DAX",        symbol |-> "GDAXI.INDX"],
     [name |-> "CAC 40",     symbol |-> "FCHI.INDX"],
     [name |-> "Nikkei 225", symbol |-> "N225.INDX"],
     [name |-> "Hang Seng",  symbol |-> "HSI.INDX"] >>

\* etfs = {...}: name -> (symbol, currency), in insertion order
etfs ==
  << [name |-> "iShares AEX UCITS ETF", symbol |-> "IAEX.AS", currency |-> <<"E","U","R">>],
     [name |-> "iShares Core S&P 500 UCITS ETF EUR Hedged", symbol |-> "CSPX.AS", currency |-> <<"E","U","R">>],
     [name |-> "iShares Core FTSE 100 UCITS ETF", symbol |-> "ISF.LSE", currency |-> <<"G","B","P">>],
     [name |-> "iShares Core DAX UCITS ETF", symbol |-> "EXS1.XETRA", currency |-> <<"E","U","R">>],
     [name |-> "Lyxor CAC 40 UCITS ETF", symbol |-> "LYXCE.XPAR", currency |-> <<"E","U","R">>] >>

Min(a, b) == IF a < b THEN a ELSE b

\* The instruments a run iterates over: the lists of the program, cut to the bounds.
IndexList == SubSeq(indices, 1, Min(MaxIndices, Len(indices)))
EtfList == SubSeq(etfs, 1, Min(MaxEtfs, Len(etfs)))

\* ------------------------------------------------------- text helpers
Digits == <<"0","1","2","3","4","5","6","7","8","9">>

DigitOf(c) == CHOOSE d \in 0..9 : Digits[d + 1] = c

RECURSIVE Num(_)
\* int() of a string of decimal digits
Num(cs) == IF cs = <<>> THEN 0
           ELSE Num(SubSeq(cs, 1, Len(cs) - 1)) * 10 + DigitOf(cs[Len(cs)])

RECURSIVE Pad(_, _)
\* n in decimal, zero-padded to w digits
Pad(n, w) == IF w = 0 THEN <<>>
             ELSE Pad(n \div 10, w - 1) \o <<Digits[(n % 10) + 1]>>

RECURSIVE IntStr(_)
\* a natural number in decimal, no padding
IntStr(n) == IF n < 10 THEN <<Digits[n + 1]>>
             ELSE IntStr(n \div 10) \o <<Digits[(n % 10) + 1]>>

\* s[:10]
Take10(s) == SubSeq(s, 1, Min(10, Len(s)))

\* ------------------------------------------------------------- dates
IsLeap(y) == (y % 4 = 0 /\ y % 100 # 0) \/ y % 400 = 0

DaysInMonth(y, m) ==
  IF m = 2 THEN (IF IsLeap(y) THEN 29 ELSE 28)
  ELSE IF m \in {4, 6, 9, 11} THEN 30 ELSE 31

\* date.fromisoformat("YYYY-MM-DD")
FromIso(s) == [year  |-> Num(SubSeq(s, 1, 4)),
               month |-> Num(SubSeq(s, 6, 7)),
               day   |-> Num(SubSeq(s, 9, 10))]

\* date.isoformat()
IsoFormat(d) == Pad(d.year, 4) \o <<"-">> \o Pad(d.month, 2) \o <<"-">> \o Pad(d.day, 2)

PrevDay(d) ==
  IF d.day > 1 THEN [d EXCEPT !.day = d.day - 1]
  ELSE IF d.month > 1
       THEN [year |-> d.year, month |-> d.month - 1, day |-> DaysInMonth(d.year, d.month - 1)]
       ELSE [year |-> d.year - 1, month |-> 12, day |-> 31]

RECURSIVE MinusDays(_, _)
\* d - timedelta(days=n)
MinusDays(d, n) == IF n = 0 THEN d ELSE MinusDays(PrevDay(d), n - 1)

\* current_date_str = (target_date - timedelta(days=i)).isoformat()
CurrentDateStr(target_date_str, i) == IsoFormat(MinusDays(FromIso(target_date_str), i))

\* ---------------------------------------------------------- variables
VARIABLES
  API_KEY,             \* os.getenv("MARKETSTACK_API_KEY"): <<>> unset, <<"">> empty, <<k>> set
  market,              \* what the upstream API holds for each symbol (a scenario name)
  now,                 \* the clock the cache's TTL is measured on, in seconds
  cache,               \* st.cache_data: a set of entries [key, value, at]
  clicked,             \* whether this script run was started by 'Data Herladen'
  pc,                  \* position of the script run
  col_idx,             \* col_idx of the loop being run
  start_data,          \* start_data of the loop body
  latest_data,         \* latest_data of the loop body
  index_results_list,
  etf_results_list,
  index_metrics,       \* the final st.metric of each index column
  etf_metrics,         \* the final st.metric of each ETF column
  index_df,            \* the 'Index Details' table as displayed
  etf_df,              \* the 'ETF Details' table as displayed
  call,                \* the running invocation of a fetch function
  run_calls,           \* history: upstream requests issued since the run (or harness call) began
  stored,              \* history: results computed since the last cache clear, [key, value, at]
  audit,               \* history: what `stored` held for the key when the last cached call was made
  cleared              \* history: whether the cache has been cleared since the program started

vars == <<API_KEY, market, now, cache, clicked, pc, col_idx, start_data, latest_data,
          index_results_list, etf_results_list, index_metrics, etf_metrics,
          index_df, etf_df, call, run_calls, stored, audit, cleared>>

scriptVars == <<API_KEY, market, clicked, pc, col_idx, start_data, latest_data,
                index_results_list, etf_results_list, index_metrics, etf_metrics,
                index_df, etf_df>>

\* ------------------------------------------------------ upstream API
\* The time part Marketstack appends to a record's date.
DateTail == <<"T","0","0",":","0","0",":","0","0","+","0","0","0","0">>

\* Closing prices the upstream reports: None, or a number.
Closes == {<<>>, <<0>>, <<100>>, <<110>>}

DateStr(s) == [kind |-> "str", str |-> s]
DateNone == [kind |-> "none", str |-> <<>>]
DateMissing == [kind |-> "missing", str |-> <<>>]

\* The 'date' fields a record answering a query around `target` may carry: each of
\* the days target .. target-5 with the time part, a bare day, a truncated string,
\* null, and no 'date' key at all.
DateFields(target) ==
  { DateStr(CurrentDateStr(target, k) \o DateTail) : k \in 0..MaxAttempts }
    \cup { DateStr(CurrentDateStr(target, 1)), DateStr(SubSeq(target, 1, 7)),
           DateNone, DateMissing }

\* A response of requests.get: status 0 stands for no response at all
\* (requests.get raises); json is whether the body parses as a JSON object;
\* data is json["data"] (<<>>: the key is missing, null or an empty list).
NoResponse == [status |-> 0, json |-> FALSE, data |-> <<>>]
HttpError(st) == [status |-> st, json |-> TRUE, data |-> <<>>]
Malformed == [status |-> 200, json |-> FALSE, data |-> <<>>]
NoData == [status |-> 200, json |-> TRUE, data |-> <<>>]
Record(d, c) == [status |-> 200, json |-> TRUE, data |-> <<[date |-> d, close |-> c]>>]

\* Every response the fetch functions are exercised with.
Responses(target) ==
  { NoResponse, HttpError(404), HttpError(500), Malformed, NoData }
    \cup { Record(d, c) : d \in DateFields(target), c \in Closes }

\* --------------------------------------------------------- the cache
\* st.cache_data keys an entry by the function and its arguments.
CacheKey(fn, symbol, target_date_str) == <<fn, symbol, target_date_str>>

\* An entry is served for ttl seconds after it was stored.
Fresh(e, t) == t - e.at < TTL

CacheLookup(c, k, t) == { e \in c : e.key = k /\ Fresh(e, t) }

CachePut(c, k, v, t) == { e \in c : e.key # k } \cup { [key |-> k, value |-> v, at |-> t] }

\* Mutant of CacheClear: the button reruns the script and clears nothing.
CacheClearNothing(c) == c

\* st.cache_data.clear()
CacheClear(c) == {}

\* ------------------------------------------------- fetch invocations
Idle == [fn |-> "none", symbol |-> "", target_date_str |-> <<>>, i |-> 0,
         state |-> "idle", api_calls |-> <<>>, result |-> <<>>, warnings |-> <<>>,
         via_cache |-> FALSE]

\* The function body starts: nothing requested yet.
Body(fn, symbol, target, via) ==
  [fn |-> fn, symbol |-> symbol, target_date_str |-> target, i |-> 0,
   state |-> "running", api_calls |-> <<>>, result |-> <<>>, warnings |-> <<>>,
   via_cache |-> via]

\* A call of the cached function: the cached value if a fresh entry exists,
\* else the body runs.
CachedCall(fn, symbol, target) ==
  LET hit == CacheLookup(cache, CacheKey(fn, symbol, target), now) IN
  IF hit # {}
  THEN [Body(fn, symbol, target, TRUE) EXCEPT
          !.state = "returned", !.result = (CHOOSE e \in hit : TRUE).value]
  ELSE Body(fn, symbol, target, TRUE)

\* The history of a cached call, taken from `stored`, never from `cache`:
\* whether a result for the key was computed since the last clear (any), whether
\* one was computed less than an hour ago (had), and that result (value).
NoAudit == [key |-> <<>>, any |-> FALSE, had |-> FALSE, value |-> <<>>]

AuditOf(fn, symbol, target) ==
  LET any == { e \in stored : e.key = <<fn, symbol, target>> }
      had == { e \in any : now - e.at < 3600 }
  IN  [key |-> <<fn, symbol, target>>, any |-> any # {}, had |-> had # {},
       value |-> IF had = {} THEN <<>> ELSE (CHOOSE e \in had : TRUE).value]

\* return value: the invocation ends, and a cached function's result is stored.
Return(value, calls, warns) ==
  /\ call' = [call EXCEPT !.state = "returned", !.result = value,
                          !.api_calls = calls, !.warnings = warns]
  /\ cache' = IF call.via_cache
              THEN CachePut(cache, CacheKey(call.fn, call.symbol, call.target_date_str), value, now)
              ELSE cache
  /\ stored' = IF call.via_cache
               THEN { e \in stored : e.key # <<call.fn, call.symbol, call.target_date_str>> }
                      \cup { [key |-> <<call.fn, call.symbol, call.target_date_str>>,
                              value |-> value, at |-> now] }
               ELSE stored

\* History kept with each request in call.api_calls: the status it was answered
\* with, whether the answer failed (no response, a status outside 2xx, a body
\* that cannot be parsed: no JSON, or a priced record whose date is null), and
\* whether it carried a record for `day` with a closing price.
Failed(r) ==
  \/ r.status = 0
  \/ r.status \notin 200..299
  \/ ~r.json
  \/ (r.data # <<>> /\ r.data[1].close # <<>> /\ r.data[1].date.kind = "none")

Qualifies(r, day) ==
  /\ ~Failed(r)
  /\ r.data # <<>>
  /\ r.data[1].close # <<>>
  /\ r.data[1].date.kind = "str"
  /\ Len(r.data[1].date.str) >= 10
  /\ \A k \in 1..10 : r.data[1].date.str[k] = day[k]

Logged(request, r, day) ==
  [req |-> request, status |-> r.status, failed |-> Failed(r),
   qualifies |-> IF day = <<>> THEN FALSE ELSE Qualifies(r, day)]

\* The except clauses an exception may land in, as the warning each shows.
\* `except Exception` takes whatever `except RequestException` does not. A body
\* that is no JSON raises requests' JSONDecodeError: a RequestException in recent
\* versions of requests, a plain ValueError in older ones.
Handlers(exc, api, other) ==
  IF exc = "RequestException" THEN {api}
  ELSE IF exc = "JSONDecodeError" THEN {api, other}
  ELSE {other}

\* An exception no except clause takes leaves the function.
Raise(calls) ==
  /\ call' = [call EXCEPT !.state = "raised", !.api_calls = calls]
  /\ UNCHANGED <<cache, stored>>

\* try/except: st.warning(...) and return None, from the clause that takes exc.
Except(exc, calls, api, other) ==
  IF Handlers(exc, api, other) = {}
  THEN Raise(calls)
  ELSE \E w \in Handlers(exc, api, other) :
          Return(<<>>, calls, Append(call.warnings, w))

\* Mutant of IsHttpError: raise_for_status() left out.
IsHttpErrorIgnored(r) == FALSE

\* raise_for_status() raises for 4xx and 5xx.
IsHttpError(r) == r.status >= 400 /\ r.status < 600

\* data.get("date", "")
DateOrDefault(data) == IF data.date.kind = "missing" THEN <<>> ELSE data.date.str

\* Mutant of ClosestOutcome: the reported date is not compared with the day asked for.
ClosestOutcomeAnyDate(r, current_date_str) ==
  IF r.status = 0 \/ IsHttpError(r) THEN "RequestException"
  ELSE IF ~r.json THEN "JSONDecodeError"
  ELSE IF r.data = <<>> THEN "next"
  ELSE IF r.data[1].close = <<>> THEN "next"
  ELSE IF r.data[1].date.kind = "none" THEN "TypeError"
  ELSE "found"

\* What one iteration of get_closest_trading_day_data's loop does with the
\* response to its request for current_date_str.
ClosestOutcome(r, current_date_str) ==
  IF r.status = 0 \/ IsHttpError(r) THEN "RequestException"
  ELSE IF ~r.json THEN "JSONDecodeError"
  ELSE IF r.data = <<>> THEN "next"
  ELSE IF r.data[1].close = <<>> THEN "next"
  ELSE IF r.data[1].date.kind = "none" THEN "TypeError"
  ELSE IF Take10(DateOrDefault(r.data[1])) = current_date_str THEN "found"
  ELSE "next"

\* params of the i-th request of get_closest_trading_day_data
ClosestRequest(c) ==
  [endpoint |-> "eod", access_key |-> API_KEY, symbols |-> c.symbol,
   date_from |-> CurrentDateStr(c.target_date_str, c.i),
   date_to |-> CurrentDateStr(c.target_date_str, c.i), limit |-> 1]

\* One iteration of the loop of get_closest_trading_day_data, answered by r.
ClosestStep(r) ==
  /\ call.state = "running" /\ call.fn = "closest"
  /\ LET cur == CurrentDateStr(call.target_date_str, call.i)
         calls == Append(call.api_calls, Logged(ClosestRequest(call), r, cur))
         out == ClosestOutcome(r, cur)
     IN  IF out = "found" THEN Return(<<r.data[1]>>, calls, call.warnings)
         ELSE IF out = "next"
         THEN IF call.i + 1 < MaxAttempts
              THEN /\ call' = [call EXCEPT !.i = call.i + 1, !.api_calls = calls]
                   /\ UNCHANGED <<cache, stored>>
              ELSE Return(<<>>, calls, Append(call.warnings, "Kon geen data vinden"))
         ELSE Except(out, calls, "API Fout", "Verwerkingsfout")
  /\ run_calls' = run_calls + 1
  /\ UNCHANGED <<scriptVars, now, audit, cleared>>

\* What get_latest_trading_day_data does with the response it ends up with.
LatestOutcome(r) ==
  IF IsHttpError(r) THEN "RequestException"
  ELSE IF ~r.json THEN "JSONDecodeError"
  ELSE IF r.data = <<>> THEN "none"
  ELSE IF r.data[1].close = <<>> THEN "none"
  ELSE IF r.data[1].date.kind = "none" THEN "TypeError"
  ELSE "found"

\* params of get_latest_trading_day_data, sent to `endpoint`
LatestRequest(c, endpoint) ==
  [endpoint |-> endpoint, access_key |-> API_KEY, symbols |-> c.symbol,
   date_from |-> <<>>, date_to |-> <<>>, limit |-> 1]

\* raise_for_status() and everything after it in get_latest_trading_day_data.
LatestFinish(r, calls) ==
  LET out == LatestOutcome(r) IN
  IF out = "found" THEN Return(<<r.data[1]>>, calls, call.warnings)
  ELSE IF out = "none"
  THEN Return(<<>>, calls, Append(call.warnings, "Geen recente data gevonden"))
  ELSE Except(out, calls, "API Fout (recent)", "Verwerkingsfout (recent)")

\* Mutant of NeedsFallback: every error status falls back, not only 404.
NeedsFallbackOnAnyError(r) == r.status >= 400

\* Whether the answer of 'eod/latest' sends get_latest_trading_day_data to 'eod'.
NeedsFallback(r) == r.status = 404

\* requests.get(BASE_URL + "eod/latest", params), answered by r.
LatestStep(r) ==
  /\ call.state = "running" /\ call.fn = "latest"
  /\ LET calls == Append(call.api_calls,
                         Logged(LatestRequest(call, "eod/latest"), r, <<>>)) IN
     IF r.status = 0
     THEN Except("RequestException", calls, "API Fout (recent)", "Verwerkingsfout (recent)")
     ELSE IF NeedsFallback(r)
     THEN /\ call' = [call EXCEPT !.state = "fallback", !.api_calls = calls]
          /\ UNCHANGED <<cache, stored>>
     ELSE LatestFinish(r, calls)
  /\ run_calls' = run_calls + 1
  /\ UNCHANGED <<scriptVars, now, audit, cleared>>

\* requests.get(BASE_URL + "eod", params) after a 404, answered by r.
LatestFallbackStep(r) ==
  /\ call.state = "fallback" /\ call.fn = "latest"
  /\ LET calls == Append(call.api_calls,
                         Logged(LatestRequest(call, "eod"), r, <<>>)) IN
     IF r.status = 0
     THEN Except("RequestException", calls, "API Fout (recent)", "Verwerkingsfout (recent)")
     ELSE LatestFinish(r, calls)
  /\ run_calls' = run_calls + 1
  /\ UNCHANGED <<scriptVars, now, audit, cleared>>

\* ------------------------------------------- the fetch functions alone
\* Each fetch function called directly, its body run against every sequence
\* of responses of Responses.
HarnessSymbols == {indices[1].symbol, etfs[1].symbol}

\* Target dates: the program's, one whose walk-back crosses the end of February
\* of a leap year, one whose walk-back crosses the end of the year.
TargetDates ==
  { START_DATE_STR,
    <<"2","0","2","4","-","0","3","-","0","2">>,
    <<"2","0","2","4","-","0","1","-","0","3">> }

MarketSymbols ==
  { IndexList[k].symbol : k \in 1..Len(IndexList) }
    \cup { EtfList[k].symbol : k \in 1..Len(EtfList) }

InitFetch ==
  /\ API_KEY = <<"secret">>
  /\ market = [s \in MarketSymbols |-> "rise"]
  /\ now = 0
  /\ cache = {}
  /\ clicked = FALSE
  /\ pc = "harness"
  /\ col_idx = 0
  /\ start_data = <<>>
  /\ latest_data = <<>>
  /\ index_results_list = <<>>
  /\ etf_results_list = <<>>
  /\ index_metrics = <<>>
  /\ etf_metrics = <<>>
  /\ index_df = <<>>
  /\ etf_df = <<>>
  /\ call = Idle
  /\ run_calls = 0
  /\ stored = {}
  /\ audit = NoAudit
  /\ cleared = FALSE

HarnessCallClosest ==
  /\ pc = "harness" /\ call.state \in {"idle", "returned"}
  /\ \E symbol \in HarnessSymbols, target \in TargetDates :
        call' = Body("closest", symbol, target, FALSE)
  /\ run_calls' = 0
  /\ UNCHANGED <<scriptVars, now, cache, stored, audit, cleared>>

HarnessCallLatest ==
  /\ pc = "harness" /\ call.state \in {"idle", "returned"}
  /\ \E symbol \in HarnessSymbols : call' = Body("latest", symbol, <<>>, FALSE)
  /\ run_calls' = 0
  /\ UNCHANGED <<scriptVars, now, cache, stored, audit, cleared>>

HarnessClosest ==
  /\ pc = "harness" /\ call.state = "running" /\ call.fn = "closest"
  /\ \E r \in Responses(call.target_date_str) : ClosestStep(r)

HarnessLatest ==
  /\ pc = "harness" /\ call.state = "running" /\ call.fn = "latest"
  /\ \E r \in Responses(START_DATE_STR) : LatestStep(r)

HarnessLatestFallback ==
  /\ pc = "harness" /\ call.state = "fallback"
  /\ \E r \in Responses(START_DATE_STR) : LatestFallbackStep(r)

NextFetch ==
  \/ HarnessCallClosest
  \/ HarnessCallLatest
  \/ HarnessClosest
  \/ HarnessLatest
  \/ HarnessLatestFallback

SpecFetch == InitFetch /\ [][NextFetch]_vars

\* ------------------------------------------------ numbers and formats
\* A float, kept exact as the fraction n/d (d > 0).
Number(n, d) == [isnum |-> TRUE, n |-> n, d |-> d, text |-> <<>>]
\* A cell that holds a string.
Text(t) == [isnum |-> FALSE, n |-> 0, d |-> 1, text |-> t]
\* A cell pandas fills with NaN because the row's dict has no such key.
NaN == [isnum |-> FALSE, n |-> 0, d |-> 0, text |-> <<>>]

Abs(n) == IF n < 0 THEN -n ELSE n

\* n/d rounded to the nearest integer, a tie to the even one
RoundHalfEven(n, d) ==
  LET q == n \div d
      r == n % d
  IN  IF 2 * r < d THEN q
      ELSE IF 2 * r > d THEN q + 1
      ELSE IF q % 2 = 0 THEN q ELSE q + 1

\* The digits of format spec '.2f' for a magnitude
Digits2f(x) ==
  LET h == RoundHalfEven(Abs(x.n) * 100, x.d)
  IN  IntStr(h \div 100) \o <<".">> \o Pad(h % 100, 2)

\* f"{x:.2f}": a sign only on a negative number
Format2f(x) == (IF x.n < 0 THEN <<"-">> ELSE <<>>) \o Digits2f(x)

\* f"{x:+.2f}": always a sign
FormatSigned2f(x) == (IF x.n < 0 THEN <<"-">> ELSE <<"+">>) \o Digits2f(x)

Fout == <<"F","o","u","t">>
DataFout == <<"D","a","t","a"," ","F","o","u","t">>

\* --------------------------------------------- the upstream's holdings
\* What the upstream holds for a symbol, as one of a few scenarios; a run of
\* the script is answered from the scenario of the symbol asked for.
\*   rise         close 100 on the start date; latest close 110
\*   fall         a null close on the start date, no data the day before, close
\*                110 two days before; 'eod/latest' is 404, 'eod' gives close 100
\*   zero_start   close 0 on the start date; latest close 110
\*   zero_latest  close 100 on the start date; latest close 0
\*   no_start     no data on the start date, no answer to the next request;
\*                latest close 110
\*   no_latest    close 100 on the start date; 'eod/latest' answers 500
Scenarios == {"rise", "fall", "zero_start", "zero_latest", "no_start", "no_latest"}

LatestDate == DateStr(<<"2","0","2","5","-","0","4","-","0","4">> \o DateTail)

Upstream(scenario, req) ==
  LET day == DateStr(req.date_from \o DateTail) IN
  IF req.endpoint = "eod/latest"
  THEN CASE scenario = "fall" -> HttpError(404)
         [] scenario = "zero_latest" -> Record(LatestDate, <<0>>)
         [] scenario = "no_latest" -> HttpError(500)
         [] OTHER -> Record(LatestDate, <<110>>)
  ELSE IF req.date_from = <<>>
  THEN CASE scenario = "fall" -> Record(LatestDate, <<100>>)
         [] OTHER -> NoData
  ELSE CASE scenario = "fall" ->
              IF req.date_from = START_DATE_STR THEN Record(day, <<>>)
              ELSE IF req.date_from = CurrentDateStr(START_DATE_STR, 1) THEN NoData
              ELSE Record(day, <<110>>)
         [] scenario = "zero_start" -> Record(day, <<0>>)
         [] scenario = "no_start" ->
              IF req.date_from = START_DATE_STR THEN NoData ELSE NoResponse
         [] OTHER -> Record(day, <<100>>)

\* ---------------------------------------------------------- the script
\* Mutant of KeyMissing: `API_KEY is None` in place of `not API_KEY`.
KeyMissingOnlyNone(key) == key = <<>>

\* not API_KEY
KeyMissing(key) == key = <<>> \/ key[1] = ""

\* Mutant of Truthy: `is not None` in place of truthiness.
TruthyNotNone(close) == close # <<>>

\* Truthiness of data.get('close'): neither None nor 0
Truthy(close) == close # <<>> /\ close[1] # 0

\* Mutant of BothUsable: the latest quote's close is not tested.
BothUsableLatestUntested(s, l) == s # <<>> /\ l # <<>> /\ Truthy(s[1].close)

\* start_data and latest_data and start_data.get('close') and latest_data.get('close')
BothUsable(s, l) == s # <<>> /\ l # <<>> /\ Truthy(s[1].close) /\ Truthy(l[1].close)

\* start_data.get("date", "")[:10]
Date10(data) == Take10(DateOrDefault(data))

\* percentage_change = ((latest_price - start_price) / start_price) * 100
PercentageChange(start_price, latest_price) ==
  Number((latest_price - start_price) * 100, start_price)

FailRow(inst) ==
  [ok |-> FALSE, name |-> inst.name, symbol |-> inst.symbol, currency |-> <<>>,
   start_date |-> <<>>, start_price |-> NaN, latest_date |-> <<>>, latest_price |-> NaN,
   change |-> Text(Fout)]

FailMetric(inst) ==
  [name |-> inst.name, symbol |-> inst.symbol, value |-> DataFout, delta |-> <<>>]

\* Mutant of IndexResults: an index whose data is unusable gets no row.
IndexResultsSkipFailed(list, inst, s, l) ==
  IF BothUsable(s, l)
  THEN Append(list,
         [ok |-> TRUE, name |-> inst.name, symbol |-> inst.symbol, currency |-> <<>>,
          start_date |-> Date10(s[1]), start_price |-> Number(s[1].close[1], 1),
          latest_date |-> Date10(l[1]), latest_price |-> Number(l[1].close[1], 1),
          change |-> PercentageChange(s[1].close[1], l[1].close[1])])
  ELSE list

\* index_results_list after the append of one iteration of the index loop
IndexResults(list, inst, s, l) ==
  IF BothUsable(s, l)
  THEN Append(list,
         [ok |-> TRUE, name |-> inst.name, symbol |-> inst.symbol, currency |-> <<>>,
          start_date |-> Date10(s[1]), start_price |-> Number(s[1].close[1], 1),
          latest_date |-> Date10(l[1]), latest_price |-> Number(l[1].close[1], 1),
          change |-> PercentageChange(s[1].close[1], l[1].close[1])])
  ELSE Append(list, FailRow(inst))

\* The st.metric one iteration of the index loop leaves in its column
IndexMetric(inst, s, l) ==
  IF BothUsable(s, l)
  THEN [name |-> inst.name, symbol |-> inst.symbol,
        value |-> Format2f(Number(l[1].close[1], 1)),
        delta |-> Format2f(PercentageChange(s[1].close[1], l[1].close[1])) \o <<"%">>]
  ELSE FailMetric(inst)

\* etf_results_list after the append of one iteration of the ETF loop
EtfResults(list, inst, s, l) ==
  IF BothUsable(s, l)
  THEN Append(list,
         [ok |-> TRUE, name |-> inst.name, symbol |-> inst.symbol, currency |-> inst.currency,
          start_date |-> Date10(s[1]), start_price |-> Number(s[1].close[1], 1),
          latest_date |-> Date10(l[1]), latest_price |-> Number(l[1].close[1], 1),
          change |-> Number(l[1].close[1] - s[1].close[1], 1)])
  ELSE Append(list, FailRow(inst))

\* The st.metric one iteration of the ETF loop leaves in its column
EtfMetric(inst, s, l) ==
  IF BothUsable(s, l)
  THEN [name |-> inst.name, symbol |-> inst.symbol,
        value |-> Format2f(Number(l[1].close[1], 1)) \o <<" ">> \o inst.currency,
        delta |-> FormatSigned2f(Number(l[1].close[1] - s[1].close[1], 1))
                    \o <<" ">> \o inst.currency]
  ELSE FailMetric(inst)

\* index_df['Verandering (%)'].apply(lambda x: f"{x:.2f}%" if isinstance(x, (int, float)) else x)
IndexCell(x) == IF x.isnum THEN Text(Format2f(x) \o <<"%">>) ELSE x

\* etf_df.apply(lambda row: f"{...:+.2f} {row['Valuta']}" if isinstance(...) else ..., axis=1)
EtfCell(row) ==
  IF row.change.isnum
  THEN Text(FormatSigned2f(row.change) \o <<" ">> \o row.currency)
  ELSE row.change

\* The script run starts: load_dotenv(), the API key check, st.stop() without a key.
CheckApiKey ==
  /\ pc = "boot"
  /\ pc' = IF KeyMissing(API_KEY) THEN "stopped" ELSE "sidebar"
  /\ run_calls' = 0
  /\ UNCHANGED <<API_KEY, market, clicked, col_idx, start_data, latest_data,
                 index_results_list, etf_results_list, index_metrics, etf_metrics,
                 index_df, etf_df, call, now, cache, stored, audit, cleared>>

\* if st.sidebar.button('Data Herladen'): clear the cache and rerun; else go on
\* to the empty result lists and the index loop.
ReloadButton ==
  /\ pc = "sidebar"
  /\ IF clicked
     THEN /\ cache' = CacheClear(cache)
          /\ stored' = {}
          /\ cleared' = TRUE
          /\ clicked' = FALSE
          /\ pc' = "boot"
          /\ UNCHANGED <<index_results_list, etf_results_list, col_idx>>
     ELSE /\ index_results_list' = <<>>
          /\ etf_results_list' = <<>>
          /\ col_idx' = 0
          /\ pc' = "idx_loop"
          /\ UNCHANGED <<cache, stored, cleared, clicked>>
  /\ UNCHANGED <<API_KEY, market, start_data, latest_data, index_metrics, etf_metrics,
                 index_df, etf_df, call, now, run_calls, audit>>

\* for name, symbol in indices.items(): the next index's
\* get_closest_trading_day_data(symbol, START_DATE_STR), or the end of the loop.
IndexLoop ==
  /\ pc = "idx_loop"
  /\ IF col_idx < Len(IndexList)
     THEN /\ call' = CachedCall("closest", IndexList[col_idx + 1].symbol, START_DATE_STR)
          /\ audit' = AuditOf("closest", IndexList[col_idx + 1].symbol, START_DATE_STR)
          /\ pc' = "idx_start"
          /\ UNCHANGED col_idx
     ELSE /\ pc' = "etf_loop"
          /\ col_idx' = 0
          /\ UNCHANGED <<call, audit>>
  /\ UNCHANGED <<API_KEY, market, clicked, start_data, latest_data,
                 index_results_list, etf_results_list, index_metrics, etf_metrics,
                 index_df, etf_df, now, cache, run_calls, stored, cleared>>

\* start_data = <the call's value>; latest_data = get_latest_trading_day_data(symbol)
IndexLatest ==
  /\ pc = "idx_start" /\ call.state \in {"returned", "raised"}
  /\ IF call.state = "raised"
     THEN /\ pc' = "crashed"
          /\ UNCHANGED <<start_data, call, audit>>
     ELSE /\ start_data' = call.result
          /\ call' = CachedCall("latest", IndexList[col_idx + 1].symbol, <<>>)
          /\ audit' = AuditOf("latest", IndexList[col_idx + 1].symbol, <<>>)
          /\ pc' = "idx_latest"
  /\ UNCHANGED <<API_KEY, market, clicked, col_idx, latest_data,
                 index_results_list, etf_results_list, index_metrics, etf_metrics,
                 index_df, etf_df, now, cache, run_calls, stored, cleared>>

\* latest_data = <the call's value>; the if/else of the index loop; col_idx += 1.
\* Dividing by a start price of 0 raises ZeroDivisionError, which nothing catches.
IndexRow ==
  /\ pc = "idx_latest" /\ call.state \in {"returned", "raised"}
  /\ LET inst == IndexList[col_idx + 1]
         s == start_data
         l == call.result
     IN  IF call.state = "raised" \/ (BothUsable(s, l) /\ s[1].close[1] = 0)
         THEN /\ pc' = "crashed"
              /\ UNCHANGED <<latest_data, index_results_list, index_metrics, col_idx, call>>
         ELSE /\ latest_data' = l
              /\ index_results_list' = IndexResults(index_results_list, inst, s, l)
              /\ index_metrics' = Append(index_metrics, IndexMetric(inst, s, l))
              /\ col_idx' = col_idx + 1
              /\ call' = Idle
              /\ pc' = "idx_loop"
  /\ UNCHANGED <<API_KEY, market, clicked, start_data, etf_results_list, etf_metrics,
                 index_df, etf_df, now, cache, run_calls, stored, audit, cleared>>

\* for name, (symbol, currency) in etfs.items(): as IndexLoop
EtfLoop ==
  /\ pc = "etf_loop"
  /\ IF col_idx < Len(EtfList)
     THEN /\ call' = CachedCall("closest", EtfList[col_idx + 1].symbol, START_DATE_STR)
          /\ audit' = AuditOf("closest", EtfList[col_idx + 1].symbol, START_DATE_STR)
          /\ pc' = "etf_start"
     ELSE /\ pc' = "tables"
          /\ UNCHANGED <<call, audit>>
  /\ UNCHANGED <<API_KEY, market, clicked, col_idx, start_data, latest_data,
                 index_results_list, etf_results_list, index_metrics, etf_metrics,
                 index_df, etf_df, now, cache, run_calls, stored, cleared>>

EtfLatest ==
  /\ pc = "etf_start" /\ call.state \in {"returned", "raised"}
  /\ IF call.state = "raised"
     THEN /\ pc' = "crashed"
          /\ UNCHANGED <<start_data, call, audit>>
     ELSE /\ start_data' = call.result
          /\ call' = CachedCall("latest", EtfList[col_idx + 1].symbol, <<>>)
          /\ audit' = AuditOf("latest", EtfList[col_idx + 1].symbol, <<>>)
          /\ pc' = "etf_latest"
  /\ UNCHANGED <<API_KEY, market, clicked, col_idx, latest_data,
                 index_results_list, etf_results_list, index_metrics, etf_metrics,
                 index_df, etf_df, now, cache, run_calls, stored, cleared>>

\* latest_data = <the call's value>; the if/else of the ETF loop; col_idx += 1
EtfRow ==
  /\ pc = "etf_latest" /\ call.state \in {"returned", "raised"}
  /\ LET inst == EtfList[col_idx + 1]
         s == start_data
         l == call.result
     IN  IF call.state = "raised"
         THEN /\ pc' = "crashed"
              /\ UNCHANGED <<latest_data, etf_results_list, etf_metrics, col_idx, call>>
         ELSE /\ latest_data' = l
              /\ etf_results_list' = EtfResults(etf_results_list, inst, s, l)
              /\ etf_metrics' = Append(etf_metrics, EtfMetric(inst, s, l))
              /\ col_idx' = col_idx + 1
              /\ call' = Idle
              /\ pc' = "etf_loop"
  /\ UNCHANGED <<API_KEY, market, clicked, start_data, index_results_list, index_metrics,
                 index_df, etf_df, now, cache, run_calls, stored, audit, cleared>>

\* The two tabs: each list as a DataFrame with its change column formatted
\* (an empty list shows st.info instead: no table).
ShowTables ==
  /\ pc = "tables"
  /\ index_df' = [k \in 1..Len(index_results_list) |->
                    [index_results_list[k] EXCEPT !.change = IndexCell(@)]]
  /\ etf_df' = [k \in 1..Len(etf_results_list) |->
                  [etf_results_list[k] EXCEPT !.change = EtfCell(etf_results_list[k])]]
  /\ pc' = "done"
  /\ UNCHANGED <<API_KEY, market, clicked, col_idx, start_data, latest_data,
                 index_results_list, etf_results_list, index_metrics, etf_metrics,
                 call, now, cache, run_calls, stored, audit, cleared>>

\* The requests of a running fetch function, answered from the market.
ScriptClosest ==
  /\ pc # "harness" /\ call.state = "running" /\ call.fn = "closest"
  /\ ClosestStep(Upstream(market[call.symbol], ClosestRequest(call)))

ScriptLatest ==
  /\ pc # "harness" /\ call.state = "running" /\ call.fn = "latest"
  /\ LatestStep(Upstream(market[call.symbol], LatestRequest(call, "eod/latest")))

ScriptLatestFallback ==
  /\ pc # "harness" /\ call.state = "fallback"
  /\ LatestFallbackStep(Upstream(market[call.symbol], LatestRequest(call, "eod")))

\* The script, run once from its first line.
Init ==
  /\ API_KEY \in {<<>>, <<"">>, <<"secret">>}
  /\ market \in [MarketSymbols -> Scenarios]
  /\ now = 0
  /\ cache = {}
  /\ clicked = FALSE
  /\ pc = "boot"
  /\ col_idx = 0
  /\ start_data = <<>>
  /\ latest_data = <<>>
  /\ index_results_list = <<>>
  /\ etf_results_list = <<>>
  /\ index_metrics = <<>>
  /\ etf_metrics = <<>>
  /\ index_df = <<>>
  /\ etf_df = <<>>
  /\ call = Idle
  /\ run_calls = 0
  /\ stored = {}
  /\ audit = NoAudit
  /\ cleared = FALSE

Next ==
  \/ CheckApiKey
  \/ ReloadButton
  \/ IndexLoop
  \/ IndexLatest
  \/ IndexRow
  \/ EtfLoop
  \/ EtfLatest
  \/ EtfRow
  \/ ShowTables
  \/ ScriptClosest
  \/ ScriptLatest
  \/ ScriptLatestFallback

Spec == Init /\ [][Next]_vars

\* ------------------------------------------------ a session of reruns
\* A finished run is run again: by any interaction with the page (Streamlit
\* reruns the script), or by a click on 'Data Herladen'.
Rerun ==
  /\ pc = "done"
  /\ \E c \in BOOLEAN : clicked' = c
  /\ pc' = "boot"
  /\ col_idx' = 0
  /\ start_data' = <<>>
  /\ latest_data' = <<>>
  /\ index_metrics' = <<>>
  /\ etf_metrics' = <<>>
  /\ index_df' = <<>>
  /\ etf_df' = <<>>
  /\ call' = Idle
  /\ UNCHANGED <<API_KEY, market, index_results_list, etf_results_list,
                 now, cache, run_calls, stored, audit, cleared>>

\* Time passes, half a TTL at a time: between two runs, or while a run is
\* between the index loop and the ETF loop.
Tick ==
  /\ pc = "done" \/ (pc = "etf_loop" /\ col_idx = 0)
  /\ now < MaxTicks * (TTL \div 2)
  /\ now' = now + (TTL \div 2)
  /\ UNCHANGED <<scriptVars, cache, call, run_calls, stored, audit, cleared>>

\* The scenarios of a session: a symbol with quotes, one that needs the walk
\* back and the fallback, one whose start quote is not found.
SessionScenarios == {"rise", "fall", "no_start"}

InitSession ==
  /\ API_KEY = <<"secret">>
  /\ market \in [MarketSymbols -> SessionScenarios]
  /\ now = 0
  /\ cache = {}
  /\ clicked = FALSE
  /\ pc = "boot"
  /\ col_idx = 0
  /\ start_data = <<>>
  /\ latest_data = <<>>
  /\ index_results_list = <<>>
  /\ etf_results_list = <<>>
  /\ index_metrics = <<>>
  /\ etf_metrics = <<>>
  /\ index_df = <<>>
  /\ etf_df = <<>>
  /\ call = Idle
  /\ run_calls = 0
  /\ stored = {}
  /\ audit = NoAudit
  /\ cleared = FALSE

NextSession ==
  \/ Next
  \/ Rerun
  \/ Tick

SpecSession == InitSession /\ [][NextSession]_vars

\* ============================================================ claims

\* C1: one run of get_closest_trading_day_data's body queries at most 5 distinct
\* days, each one of target, target-1, ..., target-4, and a quote it returns has
\* a non-null close and a date whose first 10 characters are one of those days.
C1_FiveCandidateDays ==
  call.fn = "closest" =>
    LET days == { CurrentDateStr(call.target_date_str, k) : k \in 0..4 }
        asked == { call.api_calls[j].req.date_from : j \in 1..Len(call.api_calls) }
    IN  /\ Cardinality(asked) <= 5
        /\ asked \subseteq days
        /\ \A j \in 1..Len(call.api_calls) :
              call.api_calls[j].req.date_to = call.api_calls[j].req.date_from
        /\ (call.state = "returned" /\ call.result # <<>>) =>
              /\ call.result[1].close # <<>>
              /\ call.result[1].date.kind = "str"
              /\ Len(call.result[1].date.str) >= 10
              /\ SubSeq(call.result[1].date.str, 1, 10) \in days

\* C1's case: a quote for 2024-02-29 returned to a call for 2024-03-02, after 3 requests.
C1_Witness ==
  /\ call.fn = "closest" /\ call.state = "returned" /\ call.result # <<>>
  /\ call.target_date_str = <<"2","0","2","4","-","0","3","-","0","2">>
  /\ Len(call.api_calls) = 3
  /\ call.result[1].date.str = <<"2","0","2","4","-","0","2","-","2","9">> \o DateTail

\* C3: get_latest_trading_day_data asks 'eod/latest' first; it asks 'eod' (same
\* symbol, limit 1) exactly once more if and only if 'eod/latest' answered 404,
\* and never makes more than 2 requests.
C3_OneFallbackOn404 ==
  call.fn = "latest" =>
    LET n == Len(call.api_calls) IN
    /\ n <= 2
    /\ n >= 1 => call.api_calls[1].req.endpoint = "eod/latest"
    /\ call.state = "fallback" => (n = 1 /\ call.api_calls[1].status = 404)
    /\ call.state = "returned" => (n = 2 <=> call.api_calls[1].status = 404)
    /\ n = 2 => /\ call.api_calls[1].status = 404
                /\ call.api_calls[2].req.endpoint = "eod"
                /\ call.api_calls[2].req.limit = 1
                /\ call.api_calls[2].req.symbols = call.symbol
                /\ call.api_calls[1].req.symbols = call.symbol

\* C3's case: 'eod/latest' answered 404 and the fallback's quote was returned.
C3_Witness ==
  /\ call.fn = "latest" /\ call.state = "returned" /\ call.result # <<>>
  /\ Len(call.api_calls) = 2 /\ call.api_calls[1].status = 404

\* C6: a failed request of get_closest_trading_day_data is its last: the
\* function returns None with one warning, and the exception does not leave it.
C6_ErrorShortCircuits ==
  call.fn = "closest" =>
    /\ call.state # "raised"
    /\ \A j \in 1..Len(call.api_calls) :
          call.api_calls[j].failed =>
            /\ j = Len(call.api_calls)
            /\ call.state = "returned"
            /\ call.result = <<>>
            /\ Len(call.warnings) = 1
            /\ call.warnings[1] \in {"API Fout", "Verwerkingsfout"}

\* C6's case: the third request (day target-2) failed with a status outside 2xx.
C6_Witness ==
  /\ call.fn = "closest" /\ call.state = "returned"
  /\ Len(call.api_calls) = 3
  /\ call.api_calls[3].failed /\ call.api_calls[3].status = 500

\* C9: the j-th request asks for day target-(j-1); no request before the last
\* was answered with a qualifying record; a returned quote is the last answer
\* and is dated the day last asked for; and a call that ends with None without
\* any failed request made exactly 5 requests, none qualifying.
C9_DescendingFirstMatch ==
  call.fn = "closest" =>
    LET n == Len(call.api_calls) IN
    /\ n <= 5
    /\ \A j \in 1..n :
          call.api_calls[j].req.date_from = CurrentDateStr(call.target_date_str, j - 1)
    /\ \A j \in 1..(n - 1) : ~call.api_calls[j].qualifies
    /\ (call.state = "returned" /\ call.result # <<>>) =>
          /\ call.api_calls[n].qualifies
          /\ SubSeq(call.result[1].date.str, 1, 10)
               = CurrentDateStr(call.target_date_str, n - 1)
    /\ (call.state = "returned" /\ call.result = <<>>
          /\ \A j \in 1..n : ~call.api_calls[j].failed) =>
          /\ n = 5
          /\ \A j \in 1..n : ~call.api_calls[j].qualifies

\* C9's case: no request failed, none qualified, and the fifth ended the call.
C9_Witness ==
  /\ call.fn = "closest" /\ call.state = "returned" /\ call.result = <<>>
  /\ Len(call.api_calls) = 5
  /\ \A j \in 1..5 : ~call.api_calls[j].failed
  /\ call.api_calls[5].req.date_from = <<"2","0","2","3","-","1","2","-","3","0">>

\* The quotes and outputs of the instrument an iteration has just finished.
IndexDone == pc = "idx_loop" /\ col_idx > 0 /\ Len(index_results_list) >= col_idx
EtfDone == pc = "etf_loop" /\ col_idx > 0 /\ Len(etf_results_list) >= col_idx

C4_CachedWithinTtl ==
  (call.via_cache /\ call.state = "returned") =>
    /\ audit.key = <<call.fn, call.symbol, call.target_date_str>>
    /\ audit.had => (call.api_calls = <<>> /\ call.result = audit.value)
    /\ ~audit.any => call.api_calls # <<>>

\* C4's case: after a clear and the refetch it forced, a later call within the
\* hour is served the cached None without a request.
C4_Witness ==
  /\ call.via_cache /\ call.state = "returned"
  /\ cleared /\ audit.had /\ audit.value = <<>>
  /\ call.api_calls = <<>> /\ call.result = <<>>
  /\ now > 0

\* What is left of a run, as a number every step of the run lowers: the
\* instruments still to do, 5 + MaxAttempts steps at most for each (the loop
\* head, MaxAttempts requests for the start quote, the call for the latest
\* quote, its 2 requests, the row), less the steps done for the current one.
StepsDone ==
  IF pc \in {"idx_start", "etf_start"}
  THEN 1 + (IF call.state = "running" THEN call.i ELSE MaxAttempts)
  ELSE IF pc \in {"idx_latest", "etf_latest"}
  THEN MaxAttempts + 2 + (IF call.state = "running" THEN 0
                          ELSE IF call.state = "fallback" THEN 1 ELSE 2)
  ELSE 0

Rank ==
  LET unit == MaxAttempts + 5
      etfRank == 2 + (Len(EtfList) - col_idx) * unit - StepsDone
      idxRank == 3 + Len(EtfList) * unit + (Len(IndexList) - col_idx) * unit - StepsDone
      top == 3 + Len(EtfList) * unit + Len(IndexList) * unit
  IN  CASE pc = "boot" -> top + 2 + (IF clicked THEN 2 ELSE 0)
        [] pc = "sidebar" -> top + 1 + (IF clicked THEN 2 ELSE 0)
        [] pc \in {"idx_loop", "idx_start", "idx_latest"} -> idxRank
        [] pc \in {"etf_loop", "etf_start", "etf_latest"} -> etfRank
        [] pc = "tables" -> 1
        [] OTHER -> 0

C5_Rows ==
  /\ pc # "crashed"
  /\ pc = "idx_loop" => Len(index_results_list) = col_idx
  /\ pc = "etf_loop" => Len(etf_results_list) = col_idx
  /\ pc \in {"idx_start", "idx_latest", "etf_start", "etf_latest"} => call.state # "idle"
  /\ pc \in {"etf_loop", "etf_start", "etf_latest", "tables", "done"} =>
        /\ Len(index_results_list) = Len(IndexList)
        /\ \A k \in 1..Len(IndexList) :
              /\ index_results_list[k].name = IndexList[k].name
              /\ index_results_list[k].symbol = IndexList[k].symbol
  /\ pc \in {"tables", "done"} =>
        /\ Len(etf_results_list) = Len(EtfList)
        /\ \A k \in 1..Len(EtfList) :
              /\ etf_results_list[k].name = EtfList[k].name
              /\ etf_results_list[k].symbol = EtfList[k].symbol
  /\ pc = "done" =>
        /\ Len(index_df) = Len(IndexList)
        /\ \A k \in 1..Len(IndexList) : index_df[k].name = IndexList[k].name
        /\ Len(etf_df) = Len(EtfList)
        /\ \A k \in 1..Len(EtfList) : etf_df[k].name = EtfList[k].name

\* C5: a run never dies on an instrument and never waits on a call that is not
\* there; once the index loop is over index_results_list has one row per index,
\* in the order of `indices`, and so has the table shown; the same for the
\* ETFs; and every step of a run lowers Rank, so a run ends.
C5_OneRowPerInstrument == []C5_Rows /\ [][Rank' < Rank]_vars

\* C5's case: the first index failed, the second succeeded, the run is over.
C5_Witness ==
  /\ pc = "done"
  /\ Len(index_results_list) >= 2
  /\ ~index_results_list[1].ok /\ index_results_list[1].name = "AEX"
  /\ index_results_list[2].ok /\ index_results_list[2].name = "S&P 500"
  /\ Len(etf_results_list) >= 1 /\ ~etf_results_list[1].ok

\* C7 as claimed: every successful index shows its change with an explicit
\* sign, in the metric's delta and in the table; 100 -> 110 shows "+10.00%".
C7_SignedPercent ==
  /\ IndexDone /\ index_results_list[col_idx].ok =>
        /\ index_metrics[col_idx].delta[1] \in {"+", "-"}
        /\ (start_data[1].close = <<100>> /\ latest_data[1].close = <<110>>) =>
              index_metrics[col_idx].delta = <<"+","1","0",".","0","0","%">>
  /\ pc = "done" =>
        \A k \in 1..Len(index_df) :
           index_df[k].ok =>
             /\ index_df[k].change.text[1] \in {"+", "-"}
             /\ (index_df[k].start_price = Number(100, 1)
                  /\ index_df[k].latest_price = Number(110, 1)) =>
                   index_df[k].change.text = <<"+","1","0",".","0","0","%">>

\* C8: without an API key the run stops at once: no request is ever issued, no
\* fetch function is called and no instrument is processed.
C8_NoKeyNoFetch ==
  API_KEY \in {<<>>, <<"">>} =>
    /\ pc \in {"boot", "stopped"}
    /\ run_calls = 0
    /\ call = Idle
    /\ stored = {} /\ cache = {}
    /\ index_results_list = <<>> /\ etf_results_list = <<>>
    /\ index_metrics = <<>> /\ etf_metrics = <<>>

\* C8's case: MARKETSTACK_API_KEY is set but empty, and the run has stopped.
C8_Witness == API_KEY = <<"">> /\ pc = "stopped"

\* C10: the index loop never divides by zero: a run is never ended by the
\* division, a successful index row has two non-zero closes, and a start or
\* latest close of 0 gives the failure marker.
C10_NoDivisionByZero ==
  /\ pc # "crashed"
  /\ IndexDone =>
        /\ index_results_list[col_idx].ok =>
              /\ start_data # <<>> /\ latest_data # <<>>
              /\ start_data[1].close \notin {<<>>, <<0>>}
              /\ latest_data[1].close \notin {<<>>, <<0>>}
        /\ (start_data # <<>> /\ start_data[1].close = <<0>>) =>
              index_results_list[col_idx] = FailRow(IndexList[col_idx])
        /\ (latest_data # <<>> /\ latest_data[1].close = <<0>>) =>
              index_results_list[col_idx] = FailRow(IndexList[col_idx])

\* C10's case: an index with a start close of 0 and a latest close of 110.
C10_Witness ==
  /\ IndexDone
  /\ start_data # <<>> /\ start_data[1].close = <<0>>
  /\ latest_data # <<>> /\ latest_data[1].close = <<110>>
  /\ ~index_results_list[col_idx].ok

====
